---- MODULE Spec2Model ----
(***************************************************************************)
(* Notebooks of the climate data analysis service.                        *)
(* Summer-days notebook: the cells that select the file holding the year, *)
(* slice the selected year out of the loaded tasmax array, find the model *)
(* grid cell nearest to the chosen location, convert the series of that   *)
(* cell to degrees Celsius and count the summer days.                     *)
(* Multimodel notebook: the cells that match the historical and SSP2-4.5  *)
(* files, load the yearly series and merge them.                          *)
(*                                                                         *)
(* Units: coordinates are hundredths of a degree, temperatures hundredths *)
(* of a Kelvin / of a degree Celsius, timestamps the integer YYYYMMDDHH   *)
(* (which orders like the ISO strings the notebook builds).  Indices are  *)
(* 1-based here and 0-based in numpy.                                     *)
(***************************************************************************)
EXTENDS Integers, Sequences, FiniteSets, TLC

VARIABLES tasmax_xr, location, year_box, threshold,
          tasmax_year_xr, xloc, yloc, tasmax_year_place_xr,
          no_summer_days_model, pc, err,
          run,
          query_result_df, selected_path,
          datdir_hist, datdir_ssp245,
          files_hist, files_ssp245, r1_files_hist, r1_files_ssp245,
          modelversions_latest_hist, modelversions_latest_ssp245, model_list,
          cdo_hist, cdo_ssp245, ds_hist, ds_ssp245, ds_merged_ssp245

\* the variables of the file selection cell
catalogVars == <<query_result_df, selected_path>>

\* the variables of the file discovery cells of the multimodel notebook
discoveryVars == <<datdir_hist, datdir_ssp245, files_hist, files_ssp245, r1_files_hist, r1_files_ssp245,
                   modelversions_latest_hist, modelversions_latest_ssp245,
                   model_list>>

\* the variables of the load and merge cells of the multimodel notebook
mergeVars == <<cdo_hist, cdo_ssp245, ds_hist, ds_ssp245, ds_merged_ssp245>>

vars == <<tasmax_xr, location, year_box, threshold,
          tasmax_year_xr, xloc, yloc, tasmax_year_place_xr,
          no_summer_days_model, pc, err, run,
          catalogVars, discoveryVars, mergeVars>>

----------------------------------------------------------------------------
(* Bounds of the explored inputs *)

MaxAxis == 3

MaxLen == 7

MaxCount == 3

MaxFiles == 3

MaxRuns == 2

MaxRows == 3

MaxModels == 2

MaxBeyond == 2

----------------------------------------------------------------------------
(* Floating point values: a finite number, NaN, or an infinity *)

Num(n) == [k |-> "num", x |-> n]

NaN == [k |-> "nan", x |-> 0]

PosInf == [k |-> "inf", x |-> 1]

NegInf == [k |-> "inf", x |-> -1]

\* a >= b in place of a > b
GtOrEqual(a, b) ==
    IF a.k = "nan" \/ b.k = "nan" THEN FALSE
    ELSE IF a.k = "inf" THEN a.x = 1 \/ (b.k = "inf" /\ b.x = -1)
    ELSE IF b.k = "inf" THEN b.x = -1
    ELSE a.x >= b.x

\* a > b on IEEE values, as numpy compares element-wise: any NaN gives False
Gt(a, b) ==
    IF a.k = "nan" \/ b.k = "nan" THEN FALSE
    ELSE IF a.k = "inf" THEN a.x = 1 /\ ~(b.k = "inf" /\ b.x = 1)
    ELSE IF b.k = "inf" THEN b.x = -1
    ELSE a.x > b.x

\* a - n for a finite n: NaN and the infinities are absorbing
Sub(a, n) == IF a.k = "num" THEN Num(a.x - n) ELSE a

\* np.abs left out: the signed difference
AbsSigned(n) == n

Abs(n) == IF n < 0 THEN -n ELSE n

Maximum(a, b) == IF a >= b THEN a ELSE b

----------------------------------------------------------------------------
(* Cell "Load the model data": time_start, time_end and the .loc slice *)

time_start(year) == year * 1000000 + 10112

\* the slice runs on to the first sample of the following year
time_end_next_year(year) == (year + 1) * 1000000 + 10112

time_end(year) == year * 1000000 + 123112

\* number of labels of a sorted index strictly below / not above a label
searchsorted_left(index, label) ==
    Cardinality({k \in 1..Len(index) : index[k] < label})

searchsorted_right(index, label) ==
    Cardinality({k \in 1..Len(index) : index[k] <= label})

\* da.loc[start:stop, :, :] on a sorted time index: both ends inclusive
loc_slice(da, start, stop) ==
    LET lo == searchsorted_left(da.time, start)
        hi == searchsorted_right(da.time, stop)
    IN  [da EXCEPT !.time = SubSeq(da.time, lo + 1, hi),
                   !.values = SubSeq(da.values, lo + 1, hi)]

----------------------------------------------------------------------------
(* Cell "Compare Model Grid Cell with chosen Location" *)

abslat(da, place) == [j \in 1..Len(da.lat) |-> Abs(da.lat[j] - place.latitude)]

abslon(da, place) == [i \in 1..Len(da.lon) |-> Abs(da.lon[i] - place.longitude)]

\* np.maximum(abslat, abslon): the dimensions come out as (lat, lon)
c_latlon(da, place) ==
    [j \in 1..Len(da.lat) |->
        [i \in 1..Len(da.lon) |->
            IF abslon(da, place)[i] >= abslat(da, place)[j]
            THEN abslon(da, place)[i] ELSE abslat(da, place)[j]]]

\* np.maximum(abslon, abslat) broadcasts by dimension name: the result has
\* the dimensions (lon, lat), so c[i][j] belongs to lon[i] and lat[j]
c(da, place) ==
    [i \in 1..Len(da.lon) |->
        [j \in 1..Len(da.lat) |->
            Maximum(abslon(da, place)[i], abslat(da, place)[j])]]

\* np.min(c); only evaluated on an array with at least one element
np_min(arr) ==
    CHOOSE m \in {arr[i][j] : i \in DOMAIN arr, j \in 1..Len(arr[1])} :
        \A i \in DOMAIN arr : \A j \in DOMAIN arr[i] : m <= arr[i][j]

\* np.where(arr == m): the index pairs <<i, j>> of the matching elements in
\* row-major order (first dimension outermost)
np_where(arr, m) ==
    LET rows == Len(arr)
        cols == IF rows = 0 THEN 0 ELSE Len(arr[1])
        flat == [n \in 1..(rows * cols) |->
                    <<((n - 1) \div cols) + 1, ((n - 1) % cols) + 1>>]
    IN  SelectSeq(flat, LAMBDA p : arr[p[1]][p[2]] = m)

----------------------------------------------------------------------------
(* Cells "Draw Temperature Time Series and Count Summer days" *)

KelvinOffset == 27315

SummerDayThreshold == 2500

\* the series of the cell left in Kelvin
select_place_kelvin(da, latidx, lonidx) ==
    [time |-> da.time,
     values |-> [t \in 1..Len(da.values) |-> da.values[t][latidx][lonidx]]]

\* tasmax_year_xr[:, yloc, xloc] - 273.15
select_place(da, latidx, lonidx) ==
    [time |-> da.time,
     values |-> [t \in 1..Len(da.values) |->
                    Sub(da.values[t][latidx][lonidx], KelvinOffset)]]

\* the count with a validation of the threshold in front
summer_days_index_validated(series, T) ==
    IF T.k = "num"
    THEN [err |-> "", size |-> Len(SelectSeq(series, LAMBDA v : Gt(v, T)))]
    ELSE [err |-> "invalid threshold", size |-> 0]

\* series[series > T].size: the boolean mask keeps the elements above T
summer_days_index(series, T) ==
    [err |-> "",
     size |-> Len(SelectSeq(series, LAMBDA v : Gt(v, T)))]

----------------------------------------------------------------------------
(* Inputs *)

LatAxis(n) == [j \in 1..n |-> 5200 + 150 * (j - 1)]

LonAxis(n) == [i \in 1..n |-> 950 + 50 * (i - 1)]

\* Hamburg as in the notebook text, and places between and outside the cells
Places ==
    { [latitude |-> 5355, longitude |-> 1000],
      [latitude |-> 5300, longitude |-> 975],
      [latitude |-> 5275, longitude |-> 1040],
      [latitude |-> 5200, longitude |-> 950],
      [latitude |-> 5600, longitude |-> 800] }

DatePool == <<20141201, 20141231, 20150101, 20150615, 20151231,
              20160101, 20160131>>

Hours == {0, 12, 18}

Years == {2014, 2015, 2020}

\* daily samples first..first+n-1 of the pool, all at the same hour of day
TimeAxis(first, n, hour) == [t \in 1..n |-> DatePool[first + t - 1] * 100 + hour]

TimeAxes ==
    { TimeAxis(w[1], w[2], hour) :
        w \in { v \in (1..Len(DatePool)) \X (0..MaxLen) :
                    v[1] + v[2] - 1 <= Len(DatePool) },
        hour \in Hours }

\* tasmax in hundredths of a Kelvin: 24.99, 25.00 and 25.01 degrees Celsius,
\* a missing value and a hot day
KelvinPool == <<Num(29814), Num(29815), Num(29816), NaN, Num(30315)>>

Patterns == {0, 3}

\* a (time, lat, lon) array of values that differ between days and cells
Field(ntime, nlat, nlon, p) ==
    [t \in 1..ntime |->
        [j \in 1..nlat |->
            [i \in 1..nlon |->
                KelvinPool[((t + 2 * j + i + p) % Len(KelvinPool)) + 1]]]]

\* ds_tasmax["tasmax"]: a data array with the dimensions (time, lat, lon)
DataArrays ==
    { [time |-> ta, lat |-> LatAxis(nlat), lon |-> LonAxis(nlon),
       values |-> Field(Len(ta), nlat, nlon, p)] :
        ta \in TimeAxes, nlat \in 0..MaxAxis, nlon \in 0..MaxAxis,
        p \in Patterns }

EmptyArray == [time |-> <<>>, lat |-> <<>>, lon |-> <<>>, values |-> <<>>]

EmptySeries == [time |-> <<>>, values |-> <<>>]

----------------------------------------------------------------------------
(* The notebook, one action per cell *)

\* the cells of the other notebook parts have not run
CatalogIdle == query_result_df = <<>> /\ selected_path = ""

DiscoveryIdle ==
    /\ datdir_hist = {}
    /\ datdir_ssp245 = {}
    /\ files_hist = <<>>
    /\ files_ssp245 = <<>>
    /\ r1_files_hist = <<>>
    /\ r1_files_ssp245 = <<>>
    /\ modelversions_latest_hist = <<>>
    /\ modelversions_latest_ssp245 = <<>>
    /\ model_list = <<>>

MergeIdle ==
    /\ cdo_hist = <<>>
    /\ cdo_ssp245 = <<>>
    /\ ds_hist = <<>>
    /\ ds_ssp245 = <<>>
    /\ ds_merged_ssp245 = <<>>

Init ==
    /\ tasmax_xr \in DataArrays
    /\ location \in Places
    /\ year_box \in Years
    /\ threshold = Num(SummerDayThreshold)
    /\ tasmax_year_xr = EmptyArray
    /\ xloc = 0
    /\ yloc = 0
    /\ tasmax_year_place_xr = EmptySeries
    /\ no_summer_days_model = 0
    /\ pc = "slice"
    /\ err = ""
    /\ run = 1
    /\ CatalogIdle
    /\ DiscoveryIdle
    /\ MergeIdle

\* the slice assigned back to tasmax_xr itself
SliceYearInPlace ==
    /\ pc = "slice"
    /\ tasmax_year_xr' =
           loc_slice(tasmax_xr, time_start(year_box), time_end(year_box))
    /\ tasmax_xr' = tasmax_year_xr'
    /\ pc' = "nearest"
    /\ UNCHANGED <<location, year_box, threshold, xloc, yloc,
                   tasmax_year_place_xr, no_summer_days_model, err>>
    /\ UNCHANGED <<run, catalogVars, discoveryVars, mergeVars>>

\* tasmax_year_xr = tasmax_xr.loc[time_start:time_end, :, :]
SliceYear ==
    /\ pc = "slice"
    /\ tasmax_year_xr' =
           loc_slice(tasmax_xr, time_start(year_box), time_end(year_box))
    /\ pc' = "nearest"
    /\ UNCHANGED <<tasmax_xr, location, year_box, threshold, xloc, yloc,
                   tasmax_year_place_xr, no_summer_days_model, err>>
    /\ UNCHANGED <<run, catalogVars, discoveryVars, mergeVars>>

\* ([xloc], [yloc]) = np.where(c == np.min(c)): np.min raises on an array
\* without elements, the unpacking raises unless exactly one element matches
FindNearest ==
    /\ pc = "nearest"
    /\ LET arr == c(tasmax_year_xr, location)
           empty == Len(tasmax_year_xr.lat) = 0 \/ Len(tasmax_year_xr.lon) = 0
           found == IF empty THEN <<>> ELSE np_where(arr, np_min(arr))
       IN  IF empty
           THEN /\ err' = "ValueError: zero-size array to reduction operation"
                /\ pc' = "failed"
                /\ UNCHANGED <<xloc, yloc>>
           ELSE IF Len(found) = 1
           THEN /\ xloc' = found[1][1]
                /\ yloc' = found[1][2]
                /\ pc' = "place"
                /\ UNCHANGED err
           ELSE /\ err' = "ValueError: too many values to unpack"
                /\ pc' = "failed"
                /\ UNCHANGED <<xloc, yloc>>
    /\ UNCHANGED <<tasmax_xr, location, year_box, threshold, tasmax_year_xr,
                   tasmax_year_place_xr, no_summer_days_model>>
    /\ UNCHANGED <<run, catalogVars, discoveryVars, mergeVars>>

\* tasmax_year_place_xr = tasmax_year_xr[:, yloc, xloc] - 273.15
SelectPlace ==
    /\ pc = "place"
    /\ tasmax_year_place_xr' = select_place(tasmax_year_xr, yloc, xloc)
    /\ pc' = "count"
    /\ UNCHANGED <<tasmax_xr, location, year_box, threshold, tasmax_year_xr,
                   xloc, yloc, no_summer_days_model, err>>
    /\ UNCHANGED <<run, catalogVars, discoveryVars, mergeVars>>

\* no_summer_days_model = tasmax_year_place_xr[tasmax_year_place_xr > 25].size
CountSummerDays ==
    /\ pc = "count"
    /\ LET r == summer_days_index(tasmax_year_place_xr.values, threshold)
       IN  /\ err' = r.err
           /\ no_summer_days_model' = r.size
           /\ pc' = IF r.err = "" THEN "done" ELSE "failed"
    /\ UNCHANGED <<tasmax_xr, location, year_box, threshold, tasmax_year_xr,
                   xloc, yloc, tasmax_year_place_xr>>
    /\ UNCHANGED <<run, catalogVars, discoveryVars, mergeVars>>

\* the cells are run once more on the same loaded data and selection
RunAgain ==
    /\ pc = "done"
    /\ run < MaxRuns
    /\ run' = run + 1
    /\ pc' = "slice"
    /\ UNCHANGED <<tasmax_xr, location, year_box, threshold, tasmax_year_xr,
                   xloc, yloc, tasmax_year_place_xr, no_summer_days_model, err>>
    /\ UNCHANGED <<catalogVars, discoveryVars, mergeVars>>

Next == SliceYear \/ FindNearest \/ SelectPlace \/ CountSummerDays \/ RunAgain

Spec == Init /\ [][Next]_vars

----------------------------------------------------------------------------
(* The count on its own, for every series and threshold *)

CelsiusPool == {Num(2499), Num(2500), Num(2501), NaN}

Thresholds == {Num(SummerDayThreshold), Num(2499), NaN, PosInf, NegInf}

CelsiusSeries == UNION { [1..n -> CelsiusPool] : n \in 0..MaxCount }

InitCount ==
    /\ tasmax_xr = EmptyArray
    /\ location = [latitude |-> 0, longitude |-> 0]
    /\ year_box = 2015
    /\ threshold \in Thresholds
    /\ tasmax_year_xr = EmptyArray
    /\ xloc = 0
    /\ yloc = 0
    /\ tasmax_year_place_xr \in
           { [time |-> TimeAxis(1, Len(s), 12), values |-> s] :
                s \in CelsiusSeries }
    /\ no_summer_days_model = 0
    /\ pc = "count"
    /\ err = ""
    /\ run = 1
    /\ CatalogIdle
    /\ DiscoveryIdle
    /\ MergeIdle

NextCount == CountSummerDays

SpecCount == InitCount /\ [][NextCount]_vars

----------------------------------------------------------------------------
(* Properties of the nearest grid cell *)

NearestActed == pc \notin {"slice", "nearest"}

NearestFound == pc \in {"place", "count", "done"}

GridLat == tasmax_year_xr.lat

GridLon == tasmax_year_xr.lon

GridCells == (1..Len(GridLat)) \X (1..Len(GridLon))

\* Chebyshev distance of the cell <<lat index, lon index>> to the location
Chebyshev(cell) ==
    LET dlat == GridLat[cell[1]] - location.latitude
        dlon == GridLon[cell[2]] - location.longitude
        alat == IF dlat < 0 THEN -dlat ELSE dlat
        alon == IF dlon < 0 THEN -dlon ELSE dlon
    IN  IF alat > alon THEN alat ELSE alon

ClosestCells ==
    {cell \in GridCells : \A other \in GridCells : Chebyshev(cell) <= Chebyshev(other)}

\* C1: whenever the nearest-grid-cell step produces an index pair, yloc is
\* an index of the latitude axis, xloc an index of the longitude axis, and
\* no cell of the grid is strictly closer (Chebyshev) to the location.
C1_NearestIsMinimal ==
    NearestFound =>
        /\ yloc \in 1..Len(GridLat)
        /\ xloc \in 1..Len(GridLon)
        /\ \A other \in GridCells : Chebyshev(<<yloc, xloc>>) <= Chebyshev(other)

C1_Witness ==
    /\ pc = "place"
    /\ Len(GridLat) = 3
    /\ Len(GridLon) = 2
    /\ yloc = 3
    /\ xloc = 1

\* the cells in the iteration order of np.where over c: lon index outermost
IterationOrder ==
    [n \in 1..(Len(GridLon) * Len(GridLat)) |->
        <<((n - 1) % Len(GridLat)) + 1, ((n - 1) \div Len(GridLat)) + 1>>]

FirstClosest ==
    LET n == CHOOSE m \in 1..Len(IterationOrder) :
                /\ IterationOrder[m] \in ClosestCells
                /\ \A l \in 1..(m - 1) : IterationOrder[l] \notin ClosestCells
    IN  IterationOrder[n]

\* C2: when several cells are at the same minimal distance, the step does
\* not fail and returns the first of them in iteration order.
C2_FirstOfTies ==
    (NearestActed /\ Cardinality(ClosestCells) > 1) =>
        /\ NearestFound
        /\ <<yloc, xloc>> = FirstClosest

\* C6: the step fails exactly when the grid has no points.
C6_FailsOnlyOnEmptyGrid ==
    NearestActed =>
        ((pc = "failed" /\ xloc = 0 /\ yloc = 0) <=> GridCells = {})

\* C9: on the grid lat = [52.0, 53.5, 55.0], lon = [9.5, 10.0, 10.5] and
\* for the location (53.55, 10.0) the step returns the cell (53.5, 10.0).
C9_Scenario ==
    /\ GridLat = <<5200, 5350, 5500>>
    /\ GridLon = <<950, 1000, 1050>>
    /\ location = [latitude |-> 5355, longitude |-> 1000]

C9_HamburgCell ==
    (NearestActed /\ C9_Scenario) =>
        /\ NearestFound
        /\ GridLat[yloc] = 5350
        /\ GridLon[xloc] = 1000

C9_Witness == pc = "place" /\ C9_Scenario /\ yloc = 2 /\ xloc = 2

----------------------------------------------------------------------------
(* Properties of the year slice *)

SliceActed == pc # "slice"

YearOf(ts) == ts \div 1000000

\* Y-01-01T00:00:00 <= ts <= Y-12-31T23:59:59, at the resolution of an hour
InYear(ts, year) ==
    /\ ts >= year * 1000000 + 10100
    /\ ts <= year * 1000000 + 123123

KeptIndices == {t \in 1..Len(tasmax_xr.time) : InYear(tasmax_xr.time[t], year_box)}

\* the samples of the year, in their original order
SamplesOfYear(field) ==
    LET first == CHOOSE t \in KeptIndices : \A u \in KeptIndices : t <= u
        last == CHOOSE t \in KeptIndices : \A u \in KeptIndices : t >= u
    IN  IF KeptIndices = {} THEN <<>> ELSE SubSeq(field, first, last)

\* C3: the year slice holds exactly the samples whose timestamp lies in
\* [Y-01-01T00:00:00, Y-12-31T23:59:59], in their original order.
C3_SliceIsTheYear ==
    SliceActed =>
        /\ tasmax_year_xr.time = SamplesOfYear(tasmax_xr.time)
        /\ tasmax_year_xr.values = SamplesOfYear(tasmax_xr.values)

\* C10: from a series spanning 2014-12-01 to 2016-01-31 the slice of 2015
\* holds exactly the samples of 2015-01-01 to 2015-12-31, whatever their
\* time of day.
C10_Slice2015 ==
    (/\ SliceActed
     /\ year_box = 2015
     /\ Len(tasmax_xr.time) = Len(DatePool)
     /\ \A t \in 1..Len(DatePool) : tasmax_xr.time[t] \div 100 = DatePool[t]) =>
        /\ Len(tasmax_year_xr.time) = 3
        /\ tasmax_year_xr.time[1] \div 100 = 20150101
        /\ tasmax_year_xr.time[2] \div 100 = 20150615
        /\ tasmax_year_xr.time[3] \div 100 = 20151231

YearOutsideSeries ==
    /\ Len(tasmax_xr.time) > 0
    /\ \/ year_box < YearOf(tasmax_xr.time[1])
       \/ year_box > YearOf(tasmax_xr.time[Len(tasmax_xr.time)])

\* C7: for a year outside the time range of the loaded series the slice is
\* empty and raises nothing, and the count that follows is 0 without error.
C7_EmptySliceCountsZero ==
    (SliceActed /\ YearOutsideSeries) =>
        /\ tasmax_year_xr.time = <<>>
        /\ tasmax_year_xr.values = <<>>
        /\ (pc = "nearest" => err = "")
        /\ (pc \in {"count", "done"} => tasmax_year_place_xr.values = <<>>)
        /\ (pc = "done" => no_summer_days_model = 0 /\ err = "")

C7_Witness ==
    /\ pc = "done"
    /\ YearOutsideSeries
    /\ year_box = 2014
    /\ YearOf(tasmax_xr.time[1]) = 2015
    /\ no_summer_days_model = 0

----------------------------------------------------------------------------
(* Properties of the count *)


Counted == tasmax_year_place_xr.values

C5_CountsAtLeast25 ==
    pc = "done" =>
        no_summer_days_model =
            Cardinality({t \in 1..Len(tasmax_year_xr.values) :
                LET kelvin == tasmax_year_xr.values[t][yloc][xloc]
                IN  kelvin.k = "num" /\ kelvin.x - 27315 >= 2500})

----------------------------------------------------------------------------
(* Properties of the conversion to degrees Celsius *)

\* the Kelvin values of the sliced year at the resolved cell
KelvinAtPlace ==
    [t \in 1..Len(tasmax_year_xr.values) |-> tasmax_year_xr.values[t][yloc][xloc]]

\* C11: every Kelvin value is converted to Celsius (minus 273.15) before it
\* is compared: the series that is counted holds value - 273.15 for every
\* sample, and a sample is counted exactly when that difference exceeds 25.
C11_ConvertedBeforeThreshold ==
    /\ pc \in {"count", "done"} =>
           /\ Len(Counted) = Len(KelvinAtPlace)
           /\ \A t \in 1..Len(Counted) :
                  IF KelvinAtPlace[t].k = "num"
                  THEN Counted[t] = [k |-> "num", x |-> KelvinAtPlace[t].x - 27315]
                  ELSE Counted[t] = KelvinAtPlace[t]
    /\ pc = "done" =>
           no_summer_days_model =
               Cardinality({t \in 1..Len(KelvinAtPlace) :
                   /\ KelvinAtPlace[t].k = "num"
                   /\ KelvinAtPlace[t].x - 27315 > 2500})

C11_Witness ==
    /\ pc = "done"
    /\ Len(KelvinAtPlace) = 3
    /\ no_summer_days_model = 1
    /\ \E t \in 1..3 : KelvinAtPlace[t] = [k |-> "num", x |-> 29815]

----------------------------------------------------------------------------
(* Multimodel notebook, cells "Identify the historical and scenario match". *)
(* A string is the sequence of its characters.                             *)

\* the characters that occur in the file names, in ASCII order
Alphabet == <<"-", "1", "2", "3", "A", "B", "_", "a", "g", "h", "i", "p",
              "r", "s", "t", "v">>

Ord(ch) == CHOOSE n \in 1..Len(Alphabet) : Alphabet[n] = ch

\* a < b for Python strings: lexicographic by character code
str_lt(a, b) ==
    \E n \in 1..(Len(a) + 1) :
        /\ n <= Len(b)
        /\ \A m \in 1..(n - 1) : a[m] = b[m]
        /\ (n = Len(a) + 1 \/ Ord(a[n]) < Ord(b[n]))

\* sub in s
str_contains(sub, s) ==
    \E n \in 0..(Len(s) - Len(sub)) : SubSeq(s, n + 1, n + Len(sub)) = sub

\* s.split('_')
str_split(s) ==
    LET pos == {n \in 1..Len(s) : s[n] = "_"}
        count == Cardinality(pos) + 1
        sep(k) == CHOOSE n \in pos : Cardinality({m \in pos : m < n}) = k - 1
        first(k) == IF k = 1 THEN 1 ELSE sep(k - 1) + 1
        last(k) == IF k = count THEN Len(s) ELSE sep(k) - 1
    IN  [k \in 1..count |-> SubSeq(s, first(k), last(k))]

\* list.sort() for a list of strings
list_sort(l) ==
    [k \in 1..Len(l) |->
        CHOOSE x \in {l[n] : n \in 1..Len(l)} :
            /\ Cardinality({n \in 1..Len(l) : str_lt(l[n], x)}) < k
            /\ k <= Cardinality({n \in 1..Len(l) : str_lt(l[n], x) \/ l[n] = x})]

\* the elements of l at the indices in keep, in their order
list_filter(l, keep) ==
    LET nth(k) == CHOOSE n \in keep : Cardinality({m \in keep : m < n}) = k - 1
    IN  [k \in 1..Cardinality(keep) |-> l[nth(k)]]

\* os.listdir(): the names of a directory in some order
os_listdir(dir) ==
    LET pick[rest \in SUBSET dir] ==
            IF rest = {} THEN <<>>
            ELSE LET x == CHOOSE y \in rest : TRUE
                 IN  <<x>> \o pick[rest \ {x}]
    IN  pick[dir]

subs == <<"_", "r", "1", "i", "1">>

\* [model for model in files if subs in model]
r1_files(files) ==
    list_filter(files, {n \in 1..Len(files) : str_contains(subs, files[n])})

\* models = [filename.split('_')[2] ...]; list(dict.fromkeys(models))
unique_models(r1) ==
    LET models == [n \in 1..Len(r1) |-> str_split(r1[n])[3]]
    IN  list_filter(models,
            {n \in 1..Len(models) : \A m \in 1..(n - 1) : models[m] # models[n]})

\* versions of the files whose name contains the model name, sorted; the
\* last one is the latest
latest_version(r1, model) ==
    LET model_files ==
            list_filter(r1, {n \in 1..Len(r1) : str_contains(model, r1[n])})
        versions == [n \in 1..Len(model_files) |-> str_split(model_files[n])[8]]
    IN  list_sort(versions)[Len(versions)]

\* the dictionary model -> latest version, in insertion order
modelversions_latest(r1) ==
    [n \in 1..Len(unique_models(r1)) |->
        [model |-> unique_models(r1)[n],
         version |-> latest_version(r1, unique_models(r1)[n])]]

\* the keys of a dictionary
dict_keys(d) == [n \in 1..Len(d) |-> d[n].model]

\* every model with a historical run, whether or not it has a scenario run
generate_model_list_hist(hist, ssp245) == dict_keys(hist)

\* for key in modelversions_latest_hist: if key in ...ssp245: append
generate_model_list(hist, ssp245) ==
    list_filter(dict_keys(hist),
        {n \in 1..Len(hist) : \E m \in 1..Len(ssp245) : ssp245[m].model = hist[n].model})

\* the files a data directory can hold: model, member and version of each
FilePool ==
    { [model |-> <<"A">>, member |-> <<"r", "1", "i", "1", "p", "1">>, version |-> <<"v", "1">>],
      [model |-> <<"A">>, member |-> <<"r", "1", "i", "1", "p", "1">>, version |-> <<"v", "2">>],
      [model |-> <<"A">>, member |-> <<"r", "2", "i", "1", "p", "1">>, version |-> <<"v", "3">>],
      [model |-> <<"A", "-", "2">>, member |-> <<"r", "1", "i", "1", "p", "1">>, version |-> <<"v", "3">>],
      [model |-> <<"A", "-", "2">>, member |-> <<"r", "1", "i", "1", "p", "1">>, version |-> <<"v", "1">>],
      [model |-> <<"B">>, member |-> <<"r", "1", "i", "1", "p", "1">>, version |-> <<"v", "2">>],
      [model |-> <<"B">>, member |-> <<"r", "2", "i", "1", "p", "1">>, version |-> <<"v", "1">>] }

\* the name of a file: eight fields joined by underscores, the model third
\* and the version eighth
FileName(f, experiment) ==
    <<"t", "_", "a", "_">> \o f.model \o <<"_">> \o experiment \o <<"_">> \o
    f.member \o <<"_", "g", "_", "a", "_">> \o f.version

Directories(experiment) ==
    { {FileName(f, experiment) : f \in fs} :
        fs \in {gs \in SUBSET FilePool : Cardinality(gs) <= MaxFiles} }

\* the summer-days notebook has not run
SummerIdle ==
    /\ tasmax_xr = EmptyArray
    /\ location = [latitude |-> 0, longitude |-> 0]
    /\ year_box = 2015
    /\ threshold = Num(SummerDayThreshold)
    /\ tasmax_year_xr = EmptyArray
    /\ xloc = 0
    /\ yloc = 0
    /\ tasmax_year_place_xr = EmptySeries
    /\ no_summer_days_model = 0
    /\ run = 1

summerVars == <<tasmax_xr, location, year_box, threshold, tasmax_year_xr,
                xloc, yloc, tasmax_year_place_xr, no_summer_days_model, run>>

InitDiscovery ==
    /\ SummerIdle
    /\ CatalogIdle
    /\ MergeIdle
    /\ datdir_hist \in Directories(<<"h">>)
    /\ datdir_ssp245 \in Directories(<<"s">>)
    /\ files_hist = <<>>
    /\ files_ssp245 = <<>>
    /\ r1_files_hist = <<>>
    /\ r1_files_ssp245 = <<>>
    /\ modelversions_latest_hist = <<>>
    /\ modelversions_latest_ssp245 = <<>>
    /\ model_list = <<>>
    /\ pc = "discover"
    /\ err = ""

\* the cell that lists both directories and finds the latest versions
IdentifyLatestVersions ==
    /\ pc = "discover"
    /\ files_hist' = list_sort(os_listdir(datdir_hist))
    /\ r1_files_hist' = r1_files(files_hist')
    /\ modelversions_latest_hist' = modelversions_latest(r1_files_hist')
    /\ files_ssp245' = list_sort(os_listdir(datdir_ssp245))
    /\ r1_files_ssp245' = r1_files(files_ssp245')
    /\ modelversions_latest_ssp245' = modelversions_latest(r1_files_ssp245')
    /\ pc' = "match"
    /\ UNCHANGED <<datdir_hist, datdir_ssp245, model_list, err,
                   summerVars, catalogVars, mergeVars>>

\* the cell that generates the list of models with both runs
GenerateModelList ==
    /\ pc = "match"
    /\ model_list' =
           generate_model_list(modelversions_latest_hist, modelversions_latest_ssp245)
    /\ pc' = "matched"
    /\ UNCHANGED <<datdir_hist, datdir_ssp245, files_hist, files_ssp245,
                   r1_files_hist, r1_files_ssp245, modelversions_latest_hist,
                   modelversions_latest_ssp245, err,
                   summerVars, catalogVars, mergeVars>>

NextDiscovery == IdentifyLatestVersions \/ GenerateModelList

SpecDiscovery == InitDiscovery /\ [][NextDiscovery]_vars

----------------------------------------------------------------------------
(* Properties of the file discovery *)

ModelNames == {f.model : f \in FilePool}

IsR1(f) == SubSeq(f.member, 1, 4) = <<"r", "1", "i", "1">>

\* the r1 files of a model that a directory holds
R1FilesOf(dir, experiment, model) ==
    {f \in FilePool : f.model = model /\ IsR1(f) /\ FileName(f, experiment) \in dir}

InBoth(model) ==
    /\ R1FilesOf(datdir_hist, <<"h">>, model) # {}
    /\ R1FilesOf(datdir_ssp245, <<"s">>, model) # {}

\* C12: the model list holds exactly the models with at least one r1 file
\* in the historical and at least one in the SSP2-4.5 directory, each once.
C12_ModelListIsIntersection ==
    pc = "matched" =>
        /\ \A m \in ModelNames :
               InBoth(m) <=> (\E n \in 1..Len(model_list) : model_list[n] = m)
        /\ \A n \in 1..Len(model_list) : model_list[n] \in ModelNames
        /\ \A n, m \in 1..Len(model_list) : model_list[n] = model_list[m] => n = m

C12_Witness ==
    /\ pc = "matched"
    /\ Len(model_list) = 1
    /\ \E m \in ModelNames : R1FilesOf(datdir_hist, <<"h">>, m) # {} /\ ~InBoth(m)
    /\ \E m \in ModelNames : R1FilesOf(datdir_ssp245, <<"s">>, m) # {} /\ ~InBoth(m)

VersionNumber(v) == CHOOSE n \in 1..3 : v = <<"v", <<"1", "2", "3">>[n]>>

\* the highest version among the r1 files of the model itself
HighestOwnVersion(dir, experiment, model) ==
    LET own == R1FilesOf(dir, experiment, model)
        best == CHOOSE f \in own :
                    \A g \in own : VersionNumber(g.version) <= VersionNumber(f.version)
    IN  best.version

LatestIsOwn(dict, dir, experiment) ==
    \A n \in 1..Len(dict) :
        dict[n].version = HighestOwnVersion(dir, experiment, dict[n].model)

\* C14: the version recorded as latest for a model is the highest version
\* among the r1 files of that same model in that directory; files of another
\* model, also one whose name contains this name, do not contribute.
C14_LatestVersionOfSameModel ==
    pc \in {"match", "matched"} =>
        /\ LatestIsOwn(modelversions_latest_hist, datdir_hist, <<"h">>)
        /\ LatestIsOwn(modelversions_latest_ssp245, datdir_ssp245, <<"s">>)

----------------------------------------------------------------------------
(* Purity of the slice, resolve and count steps *)

----------------------------------------------------------------------------
(* Multimodel notebook, cells "Load the data" and the merge.  A time label *)
(* is the integer YYYYMMDD; a series is a record of its time labels, its   *)
(* values and its model attribute.                                         *)

ScenarioPeriods == 85

\* pd.date_range(firstyear + '-01-01', periods = n, freq = 'A-JUL'): the
\* 31 July of the first year and of the n - 1 years after it
date_range(firstyear, periods) ==
    [k \in 1..periods |-> (firstyear + k - 1) * 10000 + 731]

\* str(model_timeseries['time'][0].values)[0:4]
firstyear_of(raw) == raw.time[1] \div 10000

\* the historical series with its time axis replaced, not cut to the period
load_historical_uncut(raw, model) ==
    [time |-> date_range(firstyear_of(raw), Len(raw.values)),
     values |-> raw.values,
     model |-> model]

\* one pass of the historical loop: new time axis, then
\* .loc['1850-01-01':'2014-12-31']
load_historical(raw, model) ==
    LET relabelled == [time |-> date_range(firstyear_of(raw), Len(raw.values)),
                       values |-> raw.values]
        cut == loc_slice(relabelled, 18500101, 20141231)
    IN  [time |-> cut.time, values |-> cut.values, model |-> model]

\* one pass of the scenario loop: the 85 labels from 2015 on
load_scenario(raw, model) ==
    [time |-> date_range(2015, ScenarioPeriods), values |-> raw.values, model |-> model]

\* the whole historical series in front of the scenario series
merge_series_all(hist, ssp) ==
    [time |-> hist.time \o ssp.time,
     values |-> hist.values \o ssp.values,
     model |-> hist.model]

\* np.concatenate of the last historical value / label and the scenario
merge_series(hist, ssp) ==
    [time |-> <<hist.time[Len(hist.time)]>> \o ssp.time,
     values |-> <<hist.values[Len(hist.values)]>> \o ssp.values,
     model |-> hist.model]

\* output of cdo yearmean for the years first..last: one value a year
CdoSeries(first, last, tag) ==
    [time |-> [k \in 1..(last - first + 1) |-> (first + k - 1) * 10000 + 701],
     values |-> [k \in 1..(last - first + 1) |-> (first + k - 1) * 10 + tag]]

HistoricalOutputs(tag) ==
    { CdoSeries(first, last, tag) :
        first \in {1849, 2010}, last \in 2013..(2014 + MaxBeyond) }

\* scenario runs that reach 2099, and one that stops a year early
ScenarioOutputs(tag) == { CdoSeries(2015, last, tag) : last \in {2098, 2099} }

ModelListNames == <<<<"A">>, <<"B">>, <<"A", "-", "2">>, <<"B", "-", "2">>>>

InitMerge ==
    /\ SummerIdle
    /\ CatalogIdle
    /\ datdir_hist = {}
    /\ datdir_ssp245 = {}
    /\ files_hist = <<>>
    /\ files_ssp245 = <<>>
    /\ r1_files_hist = <<>>
    /\ r1_files_ssp245 = <<>>
    /\ modelversions_latest_hist = <<>>
    /\ modelversions_latest_ssp245 = <<>>
    /\ \E n \in 1..MaxModels :
          /\ n <= Len(ModelListNames)
          /\ model_list = SubSeq(ModelListNames, 1, n)
          /\ cdo_hist \in [1..n -> UNION {HistoricalOutputs(tag) : tag \in 1..n}]
          /\ \A i \in 1..n : cdo_hist[i] \in HistoricalOutputs(i)
          /\ cdo_ssp245 \in [1..n -> UNION {ScenarioOutputs(tag) : tag \in 1..n}]
          /\ \A i \in 1..n : cdo_ssp245[i] \in ScenarioOutputs(i)
    /\ ds_hist = <<>>
    /\ ds_ssp245 = <<>>
    /\ ds_merged_ssp245 = <<>>
    /\ pc = "load_hist"
    /\ err = ""

\* the cell "Historical": the loop over model_list
LoadHistorical ==
    /\ pc = "load_hist"
    /\ ds_hist' = [i \in 1..Len(model_list) |->
                      load_historical(cdo_hist[i], model_list[i])]
    /\ pc' = "load_ssp"
    /\ UNCHANGED <<cdo_hist, cdo_ssp245, ds_ssp245, ds_merged_ssp245, err,
                   summerVars, catalogVars, discoveryVars>>

\* the cell "Scenario ssp245": assigning 85 labels to a series of another
\* length raises
LoadScenario ==
    /\ pc = "load_ssp"
    /\ IF \E i \in 1..Len(model_list) : Len(cdo_ssp245[i].values) # ScenarioPeriods
       THEN /\ err' = "ValueError: conflicting sizes for dimension 'time'"
            /\ pc' = "failed"
            /\ UNCHANGED ds_ssp245
       ELSE /\ ds_ssp245' = [i \in 1..Len(model_list) |->
                                load_scenario(cdo_ssp245[i], model_list[i])]
            /\ pc' = "merge"
            /\ UNCHANGED err
    /\ UNCHANGED <<cdo_hist, cdo_ssp245, ds_hist, ds_merged_ssp245,
                   summerVars, catalogVars, discoveryVars>>

\* the cell that prepends the last historical value to each scenario series
MergeScenario ==
    /\ pc = "merge"
    /\ IF \E i \in 1..Len(ds_hist) : Len(ds_hist[i].values) = 0
       THEN /\ err' = "IndexError: index -1 is out of bounds"
            /\ pc' = "failed"
            /\ UNCHANGED ds_merged_ssp245
       ELSE /\ ds_merged_ssp245' = [i \in 1..Len(ds_hist) |->
                                       merge_series(ds_hist[i], ds_ssp245[i])]
            /\ pc' = "merged"
            /\ UNCHANGED err
    /\ UNCHANGED <<cdo_hist, cdo_ssp245, ds_hist, ds_ssp245,
                   summerVars, catalogVars, discoveryVars>>

NextMerge == LoadHistorical \/ LoadScenario \/ MergeScenario

SpecMerge == InitMerge /\ [][NextMerge]_vars

----------------------------------------------------------------------------
(* Properties of the merged scenario series and of the historical period *)

\* C15: for every index i the merged series is the last value and the last
\* time label of historical series i followed by all values and labels of
\* scenario series i in their order; its length is the scenario length + 1.
C15_MergedIsLastPlusScenario ==
    pc = "merged" =>
        /\ Len(ds_merged_ssp245) = Len(ds_hist)
        /\ \A i \in 1..Len(ds_hist) :
               LET merged == ds_merged_ssp245[i]
                   hist == ds_hist[i]
                   ssp == ds_ssp245[i]
               IN  /\ Len(merged.values) = Len(ssp.values) + 1
                   /\ Len(merged.time) = Len(ssp.time) + 1
                   /\ merged.values[1] = hist.values[Len(hist.values)]
                   /\ merged.time[1] = hist.time[Len(hist.time)]
                   /\ \A k \in 1..Len(ssp.values) :
                          /\ merged.values[k + 1] = ssp.values[k]
                          /\ merged.time[k + 1] = ssp.time[k]

C15_Witness ==
    /\ pc = "merged"
    /\ Len(ds_hist) = 2
    /\ Len(ds_hist[1].values) > 1
    /\ Len(ds_merged_ssp245[2].values) = 86
    /\ ds_merged_ssp245[1].values[1] # ds_merged_ssp245[2].values[1]

\* the years of the raw historical output of model i
RawFirstYear(i) == cdo_hist[i].time[1] \div 10000

RawLastYear(i) == RawFirstYear(i) + Len(cdo_hist[i].values) - 1

\* the value of model i for a year
RawValue(i, year) == cdo_hist[i].values[year - RawFirstYear(i) + 1]

----------------------------------------------------------------------------
(* Summer-days notebook, cells "Find the Dataset That Contains the Year".  *)
(* The time_range of a catalog row is the string YYYYMMDD-YYYYMMDD.        *)

Digits == <<"0", "1", "2", "3", "4", "5", "6", "7", "8", "9">>

\* .astype(int) of a string of digits
astype_int(str) ==
    LET value(ch) == (CHOOSE n \in 1..10 : Digits[n] = ch) - 1
        number[n \in 0..Len(str)] ==
            IF n = 0 THEN 0 ELSE number[n - 1] * 10 + value(str[n])
    IN  number[Len(str)]

\* the two new columns, and the time_range column dropped
extract_years(df) ==
    [n \in 1..Len(df) |->
        [path |-> df[n].path,
         start_year |-> astype_int(SubSeq(df[n].time_range, 1, 4)),
         end_year |-> astype_int(SubSeq(df[n].time_range, 10, 13))]]

\* the rows that start in or before the year, whatever their end
selected_file_from_start(df, year) ==
    list_filter(df, {n \in 1..Len(df) : year >= df[n].start_year})

\* query_result_df[(year >= start_year) & (year <= end_year)]
selected_file(df, year) ==
    list_filter(df, {n \in 1..Len(df) :
                        year >= df[n].start_year /\ year <= df[n].end_year})

\* the four digits of a year
YearString(year) ==
    <<Digits[((year \div 1000) % 10) + 1], Digits[((year \div 100) % 10) + 1],
      Digits[((year \div 10) % 10) + 1], Digits[(year % 10) + 1]>>

\* the files of a dataset: path, first and last year
CatalogFiles ==
    { [path |-> "tasmax_day_20100101-20141231.nc", first |-> 2010, last |-> 2014],
      [path |-> "tasmax_day_20150101-20341231.nc", first |-> 2015, last |-> 2034],
      [path |-> "v2/tasmax_day_20150101-20341231.nc", first |-> 2015, last |-> 2034],
      [path |-> "tasmax_day_20350101-20541231.nc", first |-> 2035, last |-> 2054] }

CatalogRow(f) ==
    [path |-> f.path,
     time_range |-> YearString(f.first) \o <<"0", "1", "0", "1", "-">> \o
                    YearString(f.last) \o <<"1", "2", "3", "1">>]

\* cat.df: the rows of the search result in catalog order, no file twice
CatalogFrames ==
    { [n \in DOMAIN fs |-> CatalogRow(fs[n])] :
        fs \in { gs \in UNION { [1..n -> CatalogFiles] : n \in 0..MaxRows } :
                    \A n, m \in DOMAIN gs : gs[n] = gs[m] => n = m } }

InitCatalog ==
    /\ tasmax_xr = EmptyArray
    /\ location = [latitude |-> 0, longitude |-> 0]
    /\ year_box \in Years
    /\ threshold = Num(SummerDayThreshold)
    /\ tasmax_year_xr = EmptyArray
    /\ xloc = 0
    /\ yloc = 0
    /\ tasmax_year_place_xr = EmptySeries
    /\ no_summer_days_model = 0
    /\ run = 1
    /\ DiscoveryIdle
    /\ MergeIdle
    /\ query_result_df \in CatalogFrames
    /\ selected_path = ""
    /\ pc = "extract"
    /\ err = ""

\* the cell that adds start_year and end_year and drops time_range
ExtractYears ==
    /\ pc = "extract"
    /\ query_result_df' = extract_years(query_result_df)
    /\ pc' = "select"
    /\ UNCHANGED <<selected_path, err, summerVars, discoveryVars, mergeVars>>

\* the cell that selects the file: values[0] raises when no row matches
SelectFile ==
    /\ pc = "select"
    /\ LET rows == selected_file(query_result_df, year_box)
       IN  IF Len(rows) = 0
           THEN /\ err' = "IndexError: index 0 is out of bounds"
                /\ pc' = "failed"
                /\ UNCHANGED selected_path
           ELSE /\ selected_path' = rows[1].path
                /\ pc' = "selected"
                /\ UNCHANGED err
    /\ UNCHANGED <<query_result_df, summerVars, discoveryVars, mergeVars>>

NextCatalog == ExtractYears \/ SelectFile

SpecCatalog == InitCatalog /\ [][NextCatalog]_vars

----------------------------------------------------------------------------
(* Property of the file selection *)

FileOfPath(path) == CHOOSE f \in CatalogFiles : f.path = path

ContainsYear(path) ==
    FileOfPath(path).first <= year_box /\ year_box <= FileOfPath(path).last

\* C17: the selected path belongs to the first catalog row whose years
\* contain the selected year, and when no row contains the year the step
\* fails and selects no path.
C17_SelectedFileContainsYear ==
    pc \in {"selected", "failed"} =>
        LET holding == {n \in 1..Len(query_result_df) :
                            ContainsYear(query_result_df[n].path)}
        IN  IF holding = {}
            THEN pc = "failed" /\ selected_path = ""
            ELSE /\ pc = "selected"
                 /\ \E n \in holding :
                        /\ selected_path = query_result_df[n].path
                        /\ \A m \in holding : n <= m

C17_Witness ==
    /\ pc = "selected"
    /\ year_box = 2015
    /\ Len(query_result_df) = 3
    /\ selected_path = "v2/tasmax_day_20150101-20341231.nc"
    /\ query_result_df[1].path = "tasmax_day_20100101-20141231.nc"
    /\ query_result_df[3].path = "tasmax_day_20150101-20341231.nc"

====
